---------------------------- MODULE Spec2Model ----------------------------
(***************************************************************************)
(* Ant Lion Optimizer (mealpy/swarm_based/ALO.py): OriginalALO and DevALO. *)
(*                                                                         *)
(* Real numbers are exact rationals [n |-> numerator, d |-> denominator]   *)
(* in lowest terms; d = 0 encodes the IEEE special values numpy produces:  *)
(* 0/0 is not-a-number, 1/0 and -1/0 are the infinities.  Rounding of      *)
(* IEEE doubles is not modelled.                                           *)
(***************************************************************************)
EXTENDS Integers, Sequences, FiniteSets, TLC

(* ------------------------------ bounds -------------------------------- *)
\* largest configured epoch of a run, largest population, and the largest
\* epoch horizon for which the shrink ratio is tabulated
MaxEpoch == 2
MaxPopSize == 5
MaxHorizon == 20

(* ------------------------- program constants -------------------------- *)
EpochMin == 1
PopSizeMin == 5

\* variant, epoch, pop_size, problem: the optimizer object and its problem;
\* pc, current_epoch, pop, g_best, list_fitness, pop_new, idx: a run of evolve;
\* arg_solution, loc_I, loc_lb, loc_ub, walk: the argument solution, the
\* locals I, lb, ub and the returned matrix of one call of
\* random_walk_antlion__; column: the column evolve reads of that matrix
VARIABLES variant, epoch, pop_size, problem,
          pc, current_epoch, pop, g_best, list_fitness, pop_new, idx,
          arg_solution, loc_I, loc_lb, loc_ub, walk, column

vars == <<variant, epoch, pop_size, problem, pc, current_epoch, pop, g_best,
          list_fitness, pop_new, idx, arg_solution, loc_I, loc_lb, loc_ub, walk, column>>

run_vars == <<pop, g_best, list_fitness, pop_new>>

call_vars == <<arg_solution, loc_I, loc_lb, loc_ub, walk, column>>

\* a local that holds nothing yet
None == <<>>

(* --------------------------- real arithmetic -------------------------- *)
Abs(x) == IF x < 0 THEN -x ELSE x

Sign(x) == IF x < 0 THEN -1 ELSE IF x > 0 THEN 1 ELSE 0

GCD[x \in Nat, y \in Nat] == IF y = 0 THEN x ELSE GCD[y, x % y]

Real == [n : Int, d : Int]

\* n/d with d # 0 divided through by g, the sign carried by the numerator
Reduced(n, d, g) == [n |-> Sign(d) * (n \div g), d |-> Abs(d) \div g]

\* the value of n/d; a zero denominator gives an infinity or not-a-number
Rat[n \in Int, d \in Int] ==
    IF d = 0 THEN [n |-> Sign(n), d |-> 0] ELSE Reduced(n, d, GCD[Abs(n), Abs(d)])

FromInt(i) == [n |-> i, d |-> 1]

NaN == [n |-> 0, d |-> 0]

IsNaN(x) == x.d = 0 /\ x.n = 0

RNeg[x \in Real] == [n |-> -x.n, d |-> x.d]

\* the least common multiple of two positive denominators
LCM[a \in Nat, b \in Nat] == (a \div GCD[a, b]) * b

\* the sum of two finite values over their common denominator l
SumOver(x, y, l) == Rat[x.n * (l \div x.d) + y.n * (l \div y.d), l]

RAdd[x \in Real, y \in Real] ==
    IF x.d = 0 /\ y.d = 0 THEN (IF x.n = y.n THEN x ELSE NaN)
    ELSE IF x.d = 0 THEN x
    ELSE IF y.d = 0 THEN y
    ELSE SumOver(x, y, LCM[x.d, y.d])

RSub[x \in Real, y \in Real] == RAdd[x, RNeg[y]]

RMul[x \in Real, y \in Real] == Rat[x.n * y.n, x.d * y.d]

RInv[x \in Real] == Rat[x.d, x.n]

RDiv[x \in Real, y \in Real] == RMul[x, RInv[y]]

\* the order of two finite values over their common denominator l
LeOver(x, y, l) == x.n * (l \div x.d) <= y.n * (l \div y.d)

\* x <= y as numpy compares: every comparison with not-a-number is false
RLe[x \in Real, y \in Real] ==
    IF IsNaN(x) \/ IsNaN(y) THEN FALSE
    ELSE IF x.d = 0 /\ y.d = 0 THEN x.n <= y.n
    ELSE IF x.d = 0 THEN x.n < 0
    ELSE IF y.d = 0 THEN y.n > 0
    ELSE LeOver(x, y, LCM[x.d, y.d])

RLt[x \in Real, y \in Real] == RLe[x, y] /\ x # y

RGt[x \in Real, y \in Real] == RLt[y, x]

(* ------------------- OriginalALO.random_walk_antlion__ ----------------- *)
\* I is the ratio in Equations (2.10) and (2.11): five ifs in sequence,
\* each overwriting I when its threshold is passed
OriginalALO_I(t, T) ==
    LET ce == FromInt(t)
        ep == FromInt(T)
        I0 == FromInt(1)
        I1 == IF RGt[ce, RDiv[ep, FromInt(10)]]
              THEN RAdd[FromInt(1), RMul[FromInt(100), RDiv[ce, ep]]] ELSE I0
        I2 == IF RGt[ce, RDiv[ep, FromInt(2)]]
              THEN RAdd[FromInt(1), RMul[FromInt(1000), RDiv[ce, ep]]] ELSE I1
        I3 == IF RGt[ce, RMul[ep, Rat[3, 4]]]
              THEN RAdd[FromInt(1), RMul[FromInt(10000), RDiv[ce, ep]]] ELSE I2
        I4 == IF RGt[ce, RMul[ep, Rat[9, 10]]]
              THEN RAdd[FromInt(1), RMul[FromInt(100000), RDiv[ce, ep]]] ELSE I3
        I5 == IF RGt[ce, RMul[ep, Rat[95, 100]]]
              THEN RAdd[FromInt(1), RMul[FromInt(1000000), RDiv[ce, ep]]] ELSE I4
    IN  I5

\* np.cumsum of a sequence of integers
PartialSum[s \in Seq(Int), j \in Nat] == IF j = 0 THEN 0 ELSE PartialSum[s, j - 1] + s[j]

cumsum[s \in Seq(Int)] == [j \in 1..Len(s) |-> PartialSum[s, j]]

\* np.min / np.max of a non-empty sequence of integers
SeqMin[X \in Seq(Int)] ==
    CHOOSE m \in {X[j] : j \in 1..Len(X)} : \A j \in 1..Len(X) : m <= X[j]

SeqMax[X \in Seq(Int)] ==
    CHOOSE m \in {X[j] : j \in 1..Len(X)} : \A j \in 1..Len(X) : m >= X[j]

\* the outcomes of 2 * (generator.random(n) > 0.5) - 1
Steps(n) == [1..n -> {-1, 1}]

\* one bound re-centred around the solution: bound + solution when the
\* draw r is below 0.5, -bound + solution otherwise
recentre(bound, s, r) == IF r THEN RAdd[bound, s] ELSE RAdd[RNeg[bound], s]

\* lb and ub after the shrink by I and the random re-centering around the
\* solution; r1, r2 are the outcomes of the two generator.random() < 0.5
OriginalALO_lb(prob, solution, I, r1) ==
    [k \in 1..prob.n_dims |-> recentre(RDiv[FromInt(prob.lb[k]), I], solution[k], r1)]

OriginalALO_ub(prob, solution, I, r2) ==
    [k \in 1..prob.n_dims |-> recentre(RDiv[FromInt(prob.ub[k]), I], solution[k], r2)]

\* both bounds, from the one ratio I the call computes
OriginalALO_bounds(prob, solution, I, r1, r2) ==
    [lb |-> OriginalALO_lb(prob, solution, I, r1), ub |-> OriginalALO_ub(prob, solution, I, r2)]

\* length of each raw walk X: generator.random(self.epoch)
OriginalALO_walk_len(T, ps) == T

\* X_norm = ((X - a) * (d - c)) / (b - a) + c, elementwise
OriginalALO_X_norm[X \in Seq(Int), a \in Int, b \in Int, c \in Real, d \in Real] ==
    [j \in 1..Len(X) |->
        RAdd[RDiv[RMul[FromInt(X[j] - a), RSub[d, c]], FromInt(b - a)], c]]

\* a faulty row that skips the min-max normalisation: the raw walk moved to c
OriginalALO_row_raw(X, c, d) == [j \in 1..Len(X) |-> RAdd[FromInt(X[j]), c]]

\* the walk of one dimension: X the cumulative sum of the steps, a and b
\* its minimum and maximum, c and d the bounds lb[k] and ub[k]
OriginalALO_row(X, c, d) == OriginalALO_X_norm[X, SeqMin[X], SeqMax[X], c, d]

\* rows k = 1..n_dims, each the normalised walk X_norm of dimension k;
\* steps[k] is the +-1 sequence drawn for dimension k
OriginalALO_walks(bounds, steps) ==
    [k \in 1..Len(steps) |->
        OriginalALO_row(cumsum[steps[k]], bounds.lb[k], bounds.ub[k])]

OriginalALO_random_walk_antlion__(prob, solution, t, T, r1, r2, steps) ==
    OriginalALO_walks(OriginalALO_bounds(prob, solution, OriginalALO_I(t, T), r1, r2), steps)

(* --------------------- DevALO.random_walk_antlion__ -------------------- *)
\* a faulty ratio in which the first matching stage wins instead of the last
DevALO_I_first_stage(t, T) ==
    IF RGt[FromInt(t), RDiv[FromInt(T), FromInt(10)]]
    THEN RAdd[FromInt(1), RMul[FromInt(100), RDiv[FromInt(t), FromInt(T)]]]
    ELSE FromInt(1)

DevALO_I(t, T) ==
    LET ce == FromInt(t)
        ep == FromInt(T)
        I0 == FromInt(1)
        I1 == IF RGt[ce, RDiv[ep, FromInt(10)]]
              THEN RAdd[FromInt(1), RMul[FromInt(100), RDiv[ce, ep]]] ELSE I0
        I2 == IF RGt[ce, RDiv[ep, FromInt(2)]]
              THEN RAdd[FromInt(1), RMul[FromInt(1000), RDiv[ce, ep]]] ELSE I1
        I3 == IF RGt[ce, RMul[ep, Rat[3, 4]]]
              THEN RAdd[FromInt(1), RMul[FromInt(10000), RDiv[ce, ep]]] ELSE I2
        I4 == IF RGt[ce, RMul[ep, Rat[9, 10]]]
              THEN RAdd[FromInt(1), RMul[FromInt(100000), RDiv[ce, ep]]] ELSE I3
        I5 == IF RGt[ce, RMul[ep, Rat[95, 100]]]
              THEN RAdd[FromInt(1), RMul[FromInt(1000000), RDiv[ce, ep]]] ELSE I4
    IN  I5

DevALO_lb(prob, solution, I, r1) ==
    [k \in 1..prob.n_dims |-> recentre(RDiv[FromInt(prob.lb[k]), I], solution[k], r1)]

DevALO_ub(prob, solution, I, r2) ==
    [k \in 1..prob.n_dims |-> recentre(RDiv[FromInt(prob.ub[k]), I], solution[k], r2)]

\* both bounds, from the one ratio I the call computes
DevALO_bounds(prob, solution, I, r1, r2) ==
    [lb |-> DevALO_lb(prob, solution, I, r1), ub |-> DevALO_ub(prob, solution, I, r2)]

\* a faulty length: DevALO walking self.epoch steps while evolve reads column idx
DevALO_walk_len_epoch(T, ps) == T

\* length of each raw walk X: generator.random(self.pop_size)
DevALO_walk_len(T, ps) == ps

\* the vectorised normalisation, row by row: a, b are the row's min and max,
\* temp1 = (ub - lb) / (b - a), temp0 = X - a, X_norm = temp0 * temp1 + lb
DevALO_X_norm[X \in Seq(Int), a \in Int, b \in Int, lb \in Real, ub \in Real] ==
    [j \in 1..Len(X) |->
        RAdd[RMul[FromInt(X[j] - a), RDiv[RSub[ub, lb], FromInt(b - a)]], lb]]

DevALO_row(X, lb, ub) == DevALO_X_norm[X, SeqMin[X], SeqMax[X], lb, ub]

\* rows k = 1..n_dims of the returned matrix
DevALO_walks(bounds, steps) ==
    [k \in 1..Len(steps) |-> DevALO_row(cumsum[steps[k]], bounds.lb[k], bounds.ub[k])]

DevALO_random_walk_antlion__(prob, solution, t, T, r1, r2, steps) ==
    DevALO_walks(DevALO_bounds(prob, solution, DevALO_I(t, T), r1, r2), steps)

(* ------------------------ dispatch on the class ------------------------ *)
Variants == {"OriginalALO", "DevALO"}

walk_len(v, T, ps) ==
    IF v = "OriginalALO" THEN OriginalALO_walk_len(T, ps) ELSE DevALO_walk_len(T, ps)

random_walk_antlion__(v, prob, solution, t, T, r1, r2, steps) ==
    IF v = "OriginalALO"
    THEN OriginalALO_random_walk_antlion__(prob, solution, t, T, r1, r2, steps)
    ELSE DevALO_random_walk_antlion__(prob, solution, t, T, r1, r2, steps)


(* --------------------- the problem and the framework ------------------- *)
\* problem_dict of the class docstrings: box bounds, the objective
\* np.sum(solution**2) and the direction.  Runs use one integer decision
\* variable on the box [0, 1]; single calls of random_walk_antlion__ use the
\* symmetric box [-1, 1], where -lb + solution and ub + solution differ from
\* lb + solution and -ub + solution
Problems ==
    {[lb |-> <<0>>, ub |-> <<1>>, n_dims |-> 1, minmax |-> mm] : mm \in {"min", "max"}}

WalkProblems ==
    {[lb |-> <<-1>>, ub |-> <<1>>, n_dims |-> 1, minmax |-> "min"]}

SumSq[x \in Seq(Real)] ==
    IF x = <<>> THEN FromInt(0) ELSE RAdd[RMul[x[1], x[1]], SumSq[Tail(x)]]

objective_function(solution) == SumSq[solution]

\* Optimizer.get_target: the fitness of a position
get_target(prob, pos) == objective_function(pos)

\* Optimizer.generate_empty_agent: an agent that is not evaluated yet
generate_empty_agent(pos) == [solution |-> pos, target |-> NaN]

\* Optimizer.update_target_for_population: a fully evaluated batch
update_target_for_population(prob, batch) ==
    [i \in 1..Len(batch) |->
        [solution |-> batch[i].solution, target |-> get_target(prob, batch[i].solution)]]

\* Agent.copy: an independent agent with the same solution and fitness
copy(agent) == [solution |-> agent.solution, target |-> agent.target]

\* the integer points of the feasible box, as vectors of reals
Box(prob) ==
    LET vals == UNION {prob.lb[k]..prob.ub[k] : k \in 1..prob.n_dims}
        grid == {g \in [1..prob.n_dims -> vals] :
                    \A k \in 1..prob.n_dims : prob.lb[k] <= g[k] /\ g[k] <= prob.ub[k]}
    IN  {[k \in 1..prob.n_dims |-> FromInt(g[k])] : g \in grid}

InBox(prob, solution) ==
    \A k \in 1..prob.n_dims :
        RLe[FromInt(prob.lb[k]), solution[k]] /\ RLe[solution[k], FromInt(prob.ub[k])]

\* floor of a finite real
Floor(x) == x.n \div x.d

\* Bounds Corrector: a finite component is clamped into [lb, ub] and repaired
\* onto the integer grid of the decision variable; for a component that is
\* not a number the contract only promises a point of the box
correct_solution(prob, raw) ==
    {p \in Box(prob) :
        \A k \in 1..prob.n_dims :
            IsNaN(raw[k]) \/
            p[k] = (IF RLe[raw[k], FromInt(prob.lb[k])] THEN FromInt(prob.lb[k])
                    ELSE IF RLe[FromInt(prob.ub[k]), raw[k]] THEN FromInt(prob.ub[k])
                    ELSE FromInt(Floor(raw[k])))}

\* Roulette-Wheel Selector: an index in [0, pop_size)
get_index_roulette_wheel_selection(fitnesses) == 0..(Len(fitnesses) - 1)

\* a is at least as good as b in the direction minmax
NotWorse(a, b, minmax) ==
    IF minmax = "min" THEN RLe[a.target, b.target] ELSE RLe[b.target, a.target]

Better(a, b, minmax) == NotWorse(a, b, minmax) /\ a.target # b.target

Agent == [solution : Seq(Real), target : Real]

\* stable insertion of agent x into the sorted sequence s
Insert[s \in Seq(Agent), x \in Agent, minmax \in {"min", "max"}] ==
    IF s = <<>> THEN <<x>>
    ELSE IF Better(x, s[Len(s)], minmax)
         THEN Append(Insert[SubSeq(s, 1, Len(s) - 1), x, minmax], s[Len(s)])
         ELSE Append(s, x)

get_sorted_population[p \in Seq(Agent), minmax \in {"min", "max"}] ==
    IF p = <<>> THEN <<>>
    ELSE Insert[get_sorted_population[SubSeq(p, 1, Len(p) - 1), minmax], p[Len(p)], minmax]

get_sorted_and_trimmed_population(p, n, minmax) ==
    SubSeq(get_sorted_population[p, minmax], 1, n)

IsSorted(p, minmax) ==
    \A i \in 1..(Len(p) - 1) : NotWorse(p[i], p[i + 1], minmax)


(* -------------------------------- evolve ------------------------------- *)
\* what reading a column outside the matrix raises
IndexError == <<[error |-> "IndexError"]>>

\* j is a column of every row of M (Python's 0-based index, j >= 0)
ValidColumn(M, j) == \A k \in 1..Len(M) : 0 <= j /\ j < Len(M[k])

\* M[:, j] with Python's 0-based column index j
Column(M, j) ==
    IF ValidColumn(M, j) THEN [k \in 1..Len(M) |-> M[k][j + 1]] ELSE IndexError

\* the column evolve reads from RA and RE: epoch - 1 (line 112), idx (line 207)
OriginalALO_col(t, i) == t - 1

DevALO_col(t, i) == i

col(v, t, i) == IF v = "OriginalALO" THEN OriginalALO_col(t, i) ELSE DevALO_col(t, i)

\* temp = (RA[:, col] + RE[:, col]) / 2, Equation (2.13)
Combine(ca, ce) ==
    IF ca = IndexError \/ ce = IndexError THEN IndexError
    ELSE [k \in 1..Len(ca) |-> RDiv[RAdd[ca[k], ce[k]], FromInt(2)]]

\* a faulty line 114 that keeps temp as it is
pos_new_of_uncorrected(prob, raw) == {raw}

\* pos_new = self.correct_solution(temp)
pos_new_of(prob, raw) ==
    IF raw = IndexError THEN {IndexError} ELSE correct_solution(prob, raw)

\* agent = generate_empty_agent(pos_new); its target in the "single" mode
\* (line 118), left to update_target_for_population in the parallel modes
new_agent(prob, pos) ==
    [generate_empty_agent(pos) EXCEPT !.target = get_target(prob, pos)]

\* every matrix one call of random_walk_antlion__ can return
WalkOutcomes(v, prob, solution, t, T, ps) ==
    {random_walk_antlion__(v, prob, solution, t, T, r[1], r[2], steps) :
        r \in BOOLEAN \X BOOLEAN, steps \in [1..prob.n_dims -> Steps(walk_len(v, T, ps))]}

\* the configurations and epochs of a run; the walks do not read the direction
Runs ==
    {a \in [v : Variants, prob : Problems, T : EpochMin..MaxEpoch, t : 1..MaxEpoch,
            ps : PopSizeMin..MaxPopSize] :
        a.t <= a.T /\ a.prob.minmax = "min"}

\* WalkOutcomes, evaluated once for every run, epoch and reference solution
WalkCache ==
    [x \in UNION {{<<a, s>> : s \in Box(a.prob)} : a \in Runs} |->
        WalkOutcomes(x[1].v, x[1].prob, x[2], x[1].t, x[1].T, x[1].ps)]

\* every pos_new iteration i can produce from the antlion solution sa and
\* the elite solution se
Columns(Ms, j) == {Column(M, j) : M \in Ms}

Candidates(prob, cas, ces) ==
    UNION {pos_new_of(prob, Combine(x[1], x[2])) : x \in cas \X ces}

\* W[s] holds the matrices random_walk_antlion__ can return for solution s;
\* RA and RE are read at the same column j
CandidatesAt(prob, j, W, sa, se) ==
    Candidates(prob, Columns(W[sa], j), Columns(W[se], j))

PosNewOutcomes(a, i, sa, se) ==
    CandidatesAt(a.prob, col(a.v, a.t, i), [s \in {sa, se} |-> WalkCache[<<a, s>>]], sa, se)

\* PosNewOutcomes, evaluated once
PosNewCache ==
    [x \in UNION {{<<a, i, s[1], s[2]>> : i \in 0..(a.ps - 1), s \in Box(a.prob) \X Box(a.prob)} :
                    a \in Runs} |->
        PosNewOutcomes(x[1], x[2], x[3], x[4])]

\* the run and epoch of the current state
Run ==
    [v |-> variant, prob |-> [problem EXCEPT !.minmax = "min"], T |-> epoch,
     t |-> current_epoch, ps |-> pop_size]

\* faulty merges: one that does not truncate, one that does not sort
MergedPopulation_untrimmed(p, batch, n, minmax) == get_sorted_population[p \o batch, minmax]

MergedPopulation_unsorted(p, batch, n, minmax) == SubSeq(batch \o p, 1, n)

\* line 122, then line 124: merge, sort, trim, then the elite in the last slot
MergedPopulation(p, batch, n, minmax) ==
    get_sorted_and_trimmed_population(p \o batch, n, minmax)

\* a faulty line 124 that leaves the last slot alone
KeepElite_skipped(p, best) == p

KeepElite(p, best) == [p EXCEPT ![Len(p)] = copy(best)]

\* a faulty replacement of the population by the new agents alone
EvolvePopulation_batch_only(p, batch, best, n, minmax) ==
    get_sorted_and_trimmed_population(batch, n, minmax)

EvolvePopulation(p, batch, best, n, minmax) ==
    KeepElite(MergedPopulation(p, batch, n, minmax), best)

\* agents of the box, evaluated
Agents(prob) == {new_agent(prob, x) : x \in Box(prob)}

Init ==
    /\ variant \in Variants
    /\ epoch \in EpochMin..MaxEpoch
    /\ pop_size \in PopSizeMin..MaxPopSize
    /\ problem \in Problems
    /\ pop \in {p \in [1..pop_size -> Agents(problem)] : IsSorted(p, problem.minmax)}
    /\ g_best = pop[1]
    /\ current_epoch = 1
    /\ pc = "evolve"
    /\ list_fitness = <<>>
    /\ pop_new = <<>>
    /\ idx = 0
    /\ arg_solution = None
    /\ loc_I = None
    /\ loc_lb = None
    /\ loc_ub = None
    /\ walk = None
    /\ column = None

\* lines 101-104
EvolveBegin ==
    /\ pc = "evolve"
    /\ list_fitness' = [i \in 1..Len(pop) |-> pop[i].target]
    /\ pop_new' = <<>>
    /\ idx' = 0
    /\ pc' = "loop"
    /\ UNCHANGED <<variant, epoch, pop_size, problem, current_epoch, pop, g_best,
                   call_vars>>

\* lines 105-118, one iteration of the loop; RA, RE and temp are locals
\* that the next iteration overwrites
CreateCandidate ==
    /\ pc = "loop"
    /\ idx < pop_size
    /\ \E ri \in get_index_roulette_wheel_selection(list_fitness) :
         \E pos_new \in PosNewCache[<<Run, idx, pop[ri + 1].solution, g_best.solution>>] :
            IF pos_new = IndexError
            THEN pc' = "IndexError" /\ UNCHANGED <<pop_new, idx>>
            ELSE /\ pop_new' = Append(pop_new, new_agent(problem, pos_new))
                 /\ idx' = idx + 1
                 /\ pc' = pc
    /\ UNCHANGED <<variant, epoch, pop_size, problem, current_epoch, pop, g_best,
                   list_fitness, call_vars>>

\* lines 119-124
EvolveEnd ==
    /\ pc = "loop"
    /\ idx = pop_size
    /\ pop_new' = update_target_for_population(problem, pop_new)
    /\ pop' = EvolvePopulation(pop, pop_new', g_best, pop_size, problem.minmax)
    /\ pc' = "evolved"
    /\ UNCHANGED <<variant, epoch, pop_size, problem, current_epoch, g_best,
                   list_fitness, idx, call_vars>>

\* the driver after evolve: the elite is the best agent found so far, the
\* population is sorted again (sort_flag, line 53), the epoch advances
UpdateGlobalBest ==
    /\ pc = "evolved"
    /\ LET sorted == get_sorted_population[pop, problem.minmax]
       IN  /\ pop' = sorted
           /\ g_best' = IF Better(sorted[1], g_best, problem.minmax)
                        THEN sorted[1] ELSE g_best
    /\ IF current_epoch < epoch
       THEN current_epoch' = current_epoch + 1 /\ pc' = "evolve"
       ELSE current_epoch' = current_epoch /\ pc' = "done"
    /\ UNCHANGED <<variant, epoch, pop_size, problem, list_fitness, pop_new, idx,
                   call_vars>>

Next == EvolveBegin \/ CreateCandidate \/ EvolveEnd \/ UpdateGlobalBest

Spec == Init /\ [][Next]_vars


(* --------------- one call of random_walk_antlion__ alone ---------------- *)
shrink_ratio(v, t, T) == IF v = "OriginalALO" THEN OriginalALO_I(t, T) ELSE DevALO_I(t, T)

recentred_lb(v, prob, s, I, r1) ==
    IF v = "OriginalALO" THEN OriginalALO_lb(prob, s, I, r1) ELSE DevALO_lb(prob, s, I, r1)

recentred_ub(v, prob, s, I, r2) ==
    IF v = "OriginalALO" THEN OriginalALO_ub(prob, s, I, r2) ELSE DevALO_ub(prob, s, I, r2)

normalised_walks(v, bounds, steps) ==
    IF v = "OriginalALO" THEN OriginalALO_walks(bounds, steps) ELSE DevALO_walks(bounds, steps)

\* the optimizer object, the epoch evolve is called with and the reference
\* solution (an agent of the population or the elite)
InitWalk ==
    /\ variant \in Variants
    /\ epoch \in EpochMin..MaxEpoch
    /\ pop_size \in PopSizeMin..MaxPopSize
    /\ problem \in WalkProblems
    /\ current_epoch \in 1..epoch
    /\ arg_solution \in Box(problem)
    /\ pc = "call"
    /\ pop = None
    /\ g_best = None
    /\ list_fitness = None
    /\ pop_new = None
    /\ idx = 0
    /\ loc_I = None
    /\ loc_lb = None
    /\ loc_ub = None
    /\ walk = None
    /\ column = None

\* lines 55-92 (OriginalALO) and 162-188 (DevALO)
RandomWalk ==
    /\ pc = "call"
    /\ \E r1 \in BOOLEAN, r2 \in BOOLEAN,
          steps \in [1..problem.n_dims -> Steps(walk_len(variant, epoch, pop_size))] :
         /\ loc_I' = shrink_ratio(variant, current_epoch, epoch)
         /\ loc_lb' = recentred_lb(variant, problem, arg_solution, loc_I', r1)
         /\ loc_ub' = recentred_ub(variant, problem, arg_solution, loc_I', r2)
         /\ walk' = normalised_walks(variant, [lb |-> loc_lb', ub |-> loc_ub'], steps)
    /\ pc' = "returned"
    /\ UNCHANGED <<variant, epoch, pop_size, problem, current_epoch, run_vars, idx,
                   arg_solution, column>>

\* lines 112 and 207: the column of the returned matrix that iteration i of
\* range(0, pop_size) reads
ReadColumn ==
    /\ pc = "returned"
    /\ \E i \in 0..(pop_size - 1) :
         /\ idx' = i
         /\ column' = Column(walk, col(variant, current_epoch, i))
    /\ pc' = IF column' = IndexError THEN "IndexError" ELSE "read"
    /\ UNCHANGED <<variant, epoch, pop_size, problem, current_epoch, run_vars,
                   arg_solution, loc_I, loc_lb, loc_ub, walk>>

NextWalk == RandomWalk \/ ReadColumn

SpecWalk == InitWalk /\ [][NextWalk]_vars

(* ------------------------ the shrink ratio I alone ---------------------- *)
InitRatio ==
    /\ variant \in Variants
    /\ epoch \in EpochMin..MaxHorizon
    /\ current_epoch \in 1..epoch
    /\ pop_size = PopSizeMin
    /\ problem \in WalkProblems
    /\ pc = "ratio"
    /\ pop = None
    /\ g_best = None
    /\ list_fitness = None
    /\ pop_new = None
    /\ idx = 0
    /\ arg_solution = None
    /\ loc_I = None
    /\ loc_lb = None
    /\ loc_ub = None
    /\ walk = None
    /\ column = None

\* lines 56-66 and 163-173
ComputeRatio ==
    /\ pc = "ratio"
    /\ loc_I' = shrink_ratio(variant, current_epoch, epoch)
    /\ pc' = "ratio_done"
    /\ UNCHANGED <<variant, epoch, pop_size, problem, current_epoch, run_vars, idx,
                   arg_solution, loc_lb, loc_ub, walk, column>>

NextRatio == ComputeRatio

SpecRatio == InitRatio /\ [][NextRatio]_vars

(* ------------------------------ properties ----------------------------- *)
SameAgent(a, b) == a.solution = b.solution /\ a.target = b.target

\* C1: when evolve has completed, the population holds an agent whose
\* solution and fitness equal those of the elite g_best evolve was given
C1_ElitePresent ==
    pc = "evolved" => \E i \in 1..Len(pop) : SameAgent(pop[i], g_best)

\* C1, the case: every new agent beats the elite, so that sorting and
\* truncating alone keep only new agents, and the elite sits in the last slot
C1_EliteRestored ==
    /\ pc = "evolved"
    /\ Len(pop_new) = pop_size
    /\ \A i \in 1..Len(pop_new) : Better(pop_new[i], g_best, problem.minmax)
    /\ SameAgent(pop[Len(pop)], g_best)

\* C2: no step of a run makes the best fitness of the population worse: every
\* agent of the population before the step is matched by an agent after it
\* that is at least as good in the direction of the problem
C2_BestNeverRegresses ==
    [][\A j \in 1..Len(pop) :
          \E i \in 1..Len(pop') : NotWorse(pop'[i], pop[j], problem.minmax)]_vars

\* C2, the case: a generation after the first has completed and its best
\* agent is strictly better than the best known before it
C2_LaterGenerationImproves ==
    /\ pc = "evolved"
    /\ current_epoch > 1
    /\ \E i \in 1..Len(pop) : Better(pop[i], g_best, problem.minmax)

\* C3: the population has pop_size agents in every state of a run
C3_LengthIsPopSize == Len(pop) = pop_size

\* C3, the case: a generation after the first has merged pop_size new agents
\* into the population
C3_MergedAndTrimmed ==
    /\ pc = "evolved"
    /\ current_epoch > 1
    /\ Len(pop_new) = pop_size
    /\ Len(pop) = pop_size

\* C4 as stated: the population evolve leaves, the elite copy in the last
\* slot included, is sorted in the direction of the problem
C4_SortedAfterEvolve == pc = "evolved" => IsSorted(pop, problem.minmax)

\* C4, amended: evolve leaves the first pop_size - 1 agents sorted and the
\* elite copy in the last slot; the whole population is sorted once the
\* driver has sorted it again, before the next generation and at the end
C4_SortedUpToEliteSlot ==
    /\ pc = "evolved" =>
          /\ IsSorted(SubSeq(pop, 1, Len(pop) - 1), problem.minmax)
          /\ SameAgent(pop[Len(pop)], g_best)
    /\ pc \in {"evolve", "loop", "done"} => IsSorted(pop, problem.minmax)

\* C4, the case: evolve has left the elite copy behind a worse agent
C4_EliteBehindWorse ==
    /\ pc = "evolved"
    /\ Better(pop[Len(pop)], pop[Len(pop) - 1], problem.minmax)

\* C5: every agent of the population, and every candidate evolve has created,
\* has its solution inside the box [lb, ub]
C5_InsideBox ==
    /\ \A i \in 1..Len(pop) : InBox(problem, pop[i].solution)
    /\ \A i \in 1..Len(pop_new) : InBox(problem, pop_new[i].solution)

\* C5, the case: a candidate created in a generation after the first has
\* survived the merge
C5_CandidateSurvives ==
    /\ pc = "evolved"
    /\ current_epoch > 1
    /\ \E i \in 1..(Len(pop) - 1) :
          /\ Better(pop[i], g_best, problem.minmax)
          /\ \E j \in 1..Len(pop_new) : SameAgent(pop[i], pop_new[j])

\* the ratio of the last stage whose threshold t has passed, the thresholds
\* T/10, T/2, 3T/4, 0.9T and 0.95T compared in whole numbers
LastMatchingStage(t, T) ==
    IF 100 * t > 95 * T THEN Rat[T + 1000000 * t, T]
    ELSE IF 10 * t > 9 * T THEN Rat[T + 100000 * t, T]
    ELSE IF 4 * t > 3 * T THEN Rat[T + 10000 * t, T]
    ELSE IF 2 * t > T THEN Rat[T + 1000 * t, T]
    ELSE IF 10 * t > T THEN Rat[T + 100 * t, T]
    ELSE FromInt(1)

\* C6: the ratio I of epoch t is that of the last matching stage, is 1 while
\* t <= T/10, is at least the ratio of every earlier epoch, and is the same
\* in OriginalALO and DevALO
C6_ShrinkRatio ==
    pc = "ratio_done" =>
        /\ loc_I = LastMatchingStage(current_epoch, epoch)
        /\ (10 * current_epoch <= epoch => loc_I = FromInt(1))
        /\ \A t \in 1..current_epoch : RLe[shrink_ratio(variant, t, epoch), loc_I]
        /\ OriginalALO_I(current_epoch, epoch) = DevALO_I(current_epoch, epoch)

\* C6, the case: four thresholds have passed, the fifth has not
C6_FourthStage ==
    /\ pc = "ratio_done"
    /\ 10 * current_epoch > 9 * epoch
    /\ 100 * current_epoch <= 95 * epoch

\* v lies between x and y, whichever of the two is the smaller
Between(v, x, y) == (RLe[x, v] /\ RLe[v, y]) \/ (RLe[y, v] /\ RLe[v, x])

\* C7 as stated: every value of dimension k of the returned matrix satisfies
\* lb'[k] <= value <= ub'[k]
C7_WithinBounds ==
    pc = "returned" =>
        \A k \in 1..Len(walk) : \A j \in 1..Len(walk[k]) :
            RLe[loc_lb[k], walk[k][j]] /\ RLe[walk[k][j], loc_ub[k]]

\* C7, amended: every value of a row of more than one column lies between
\* lb'[k] and ub'[k], in whichever order the re-centering has left them; the
\* value of a row of one column is not a number
C7_BetweenBounds ==
    pc \in {"returned", "read"} =>
        \A k \in 1..Len(walk) : \A j \in 1..Len(walk[k]) :
            IF Len(walk[k]) > 1
            THEN Between(walk[k][j], loc_lb[k], loc_ub[k])
            ELSE IsNaN(walk[k][j])

\* C7, the case: the re-centering has left ub' below lb' and the walk has
\* a value strictly between them
C7_InvertedBounds ==
    /\ pc = "returned"
    /\ \E k \in 1..Len(walk) :
          /\ RLt[loc_ub[k], loc_lb[k]]
          /\ \E j \in 1..Len(walk[k]) :
                RLt[loc_ub[k], walk[k][j]] /\ RLt[walk[k][j], loc_lb[k]]

\* C8 as stated: no value that is not a number is in the column evolve
\* reads of the returned matrix, from which it makes the candidate
C8_NoNaNReachesCandidate ==
    pc = "read" => \A k \in 1..Len(column) : ~IsNaN(column[k])

\* C9 as stated: the returned matrix has n_dims rows of T columns, T the
\* configured number of epochs, in both variants
C9_HorizonIsEpoch ==
    pc = "returned" =>
        /\ Len(walk) = problem.n_dims
        /\ \A k \in 1..Len(walk) : Len(walk[k]) = epoch

\* C10: every column evolve can read of the returned matrix is one of its
\* columns: epoch - 1 of the T columns in OriginalALO, idx of the pop_size
\* columns in DevALO, for every idx in 0..pop_size - 1; no read fails
C10_ColumnIsValid ==
    /\ pc # "IndexError"
    /\ pc = "returned" =>
          /\ \A k \in 1..Len(walk) :
                Len(walk[k]) = IF variant = "OriginalALO" THEN epoch ELSE pop_size
          /\ \A i \in 0..(pop_size - 1) :
                ValidColumn(walk, col(variant, current_epoch, i))
    /\ pc = "read" => column # IndexError /\ Len(column) = problem.n_dims

\* C10, the case: DevALO has read the last column, idx = pop_size - 1, of a
\* matrix wider than the number of epochs
C10_LastColumnRead ==
    /\ pc = "read"
    /\ variant = "DevALO"
    /\ idx = pop_size - 1
    /\ epoch < pop_size
    /\ Len(walk[1]) = pop_size

=============================================================================
